---- MODULE Spec2Model ----
(***************************************************************************)
(* Model of the Go rule engine of gogame.py: the board, the side to move,  *)
(* the prisoner counts, and the click handler that validates a placement,  *)
(* resolves captures and rejects suicide.                                  *)
(***************************************************************************)
EXTENDS Integers, FiniteSets, Sequences, TLC

\* ---------------------------------------------------------------- bounds
\* Largest board size explored (Game(size) is built for 2..MaxSize).
MaxSize == 3
\* Accepted moves per game after which no further click is explored.
MaxMoves == 5
\* Accepted moves explored in the corner of the 5x5 board (SpecCorner).
CornerMoves == 3
\* Accepted moves explored towards the cross position of the 3x3 board
\* (SpecCross).
CrossMoves == 8
\* Most stones on a board handed to the query functions in SpecQuery.
MaxStones == 5
\* Largest arbitrary cell set handed to has_no_liberties in SpecQuery.
MaxGroup == 2

VARIABLES
    constructed,      \* Game(size) returned an object (no exception in __init__)
    size,             \* self.size
    board,            \* self.board, a size x size matrix: 0 empty, 1 black, 2 white
    black_turn,       \* self.black_turn
    prisoners,        \* self.prisoners, a defaultdict(int) keyed by colour name
    click,            \* the (col,row) of the last handle_click, <<>> before the first
    outcome,          \* where the last handle_click returned
    capture_happened, \* the local flag of the last handle_click
    prev,             \* board, black_turn and prisoners when the last handle_click began
    moves,            \* accepted moves made so far by each colour
    positions,        \* SpecKo only: the boards the game held before the present one
    query             \* SpecQuery only: the last query function call and its result

vars == <<constructed, size, board, black_turn, prisoners, click, outcome, capture_happened,
          prev, moves, positions, query>>

\* ------------------------------------------------------------ the board
Sizes == 2..MaxSize

\* Accepted moves explored on a board of size n: MaxMoves on the 3x3 board,
\* three more for each line fewer, three fewer for each line more.
MoveBudget(n) == MaxMoves + 3 * (3 - n)

\* Stones on the boards of size n handed to the query functions: MaxStones
\* on the 3x3 board, every board of size 2.
StoneBudget(n) == MaxStones + 4 * (3 - n)

Cells(n) == (0..(n - 1)) \X (0..(n - 1))

\* The board is the numpy matrix as a sequence of columns: board[col, row]
\* of the source is b[col + 1][row + 1].
At(b, x, y) == b[x + 1][y + 1]

\* Variant: np.ones in place of np.zeros.
EmptyBoardOnes(n) == [x \in 1..n |-> [y \in 1..n |-> 1]]

\* np.zeros((size, size))
EmptyBoard(n) == [x \in 1..n |-> [y \in 1..n |-> 0]]

\* board.shape[0]
Shape(b) == Len(b)

\* Variant: the two colour codes are exchanged.
ColorCodeSwapped(color) == IF color = "black" THEN 2 ELSE 1

\* color_code = 1 if color == "black" else 2
ColorCode(color) == IF color = "black" THEN 1 ELSE 2

\* ------------------------------------------------------ is_valid_move
\* Variant: the bounds are tested, the occupancy of the cell is not.
is_valid_move_ignores_stone(col, row, b) ==
    IF col < 0 \/ col >= Shape(b) THEN FALSE
    ELSE IF row < 0 \/ row >= Shape(b) THEN FALSE
    ELSE TRUE

is_valid_move(col, row, b) ==
    IF col < 0 \/ col >= Shape(b) THEN FALSE
    ELSE IF row < 0 \/ row >= Shape(b) THEN FALSE
    ELSE At(b, col, row) = 0

\* --------------------------------------------------- has_no_liberties
\* The body of the loop for one stone: TRUE when one of the four tests
\* returns False from the function.
\* Variant: the tests x > 0 and y > 0 are missing, so that at the left and
\* top edges board[x - 1, y] and board[x, y - 1] index from the far end.
StoneHasLibertyWraps(b, x, y) ==
    \/ At(b, (x - 1) % Shape(b), y) = 0
    \/ At(b, x, (y - 1) % Shape(b)) = 0
    \/ (x < Shape(b) - 1 /\ At(b, x + 1, y) = 0)
    \/ (y < Shape(b) - 1 /\ At(b, x, y + 1) = 0)

\* Variant: the neighbour at y + 1 is not looked at.
StoneHasLibertyNoBelow(b, x, y) ==
    \/ (x > 0 /\ At(b, x - 1, y) = 0)
    \/ (y > 0 /\ At(b, x, y - 1) = 0)
    \/ (x < Shape(b) - 1 /\ At(b, x + 1, y) = 0)

StoneHasLiberty(b, x, y) ==
    \/ (x > 0 /\ At(b, x - 1, y) = 0)
    \/ (y > 0 /\ At(b, x, y - 1) = 0)
    \/ (x < Shape(b) - 1 /\ At(b, x + 1, y) = 0)
    \/ (y < Shape(b) - 1 /\ At(b, x, y + 1) = 0)

\* Variant: True as soon as one stone of the group has no liberty.
has_no_liberties_any(b, group) ==
    \E s \in group : ~StoneHasLiberty(b, s[1], s[2])

has_no_liberties(b, group) ==
    \A s \in group : ~StoneHasLiberty(b, s[1], s[2])

\* --------------------------------------------------- get_stone_groups
\* Edges of nx.grid_graph(dim=[n, n]): nodes one step apart on one axis.
GridEdge(a, c) ==
    \/ (a[1] = c[1] /\ (a[2] = c[2] + 1 \/ c[2] = a[2] + 1))
    \/ (a[2] = c[2] /\ (a[1] = c[1] + 1 \/ c[1] = a[1] + 1))

\* Variant: the search stops after the neighbours of the start.
PlainBfsOneStep(nodes, seen, frontier) ==
    seen \cup {c \in nodes \ seen : \E a \in frontier : GridEdge(a, c)}

\* Breadth-first search of the graph induced on nodes, from the frontier.
RECURSIVE PlainBfs(_, _, _)
PlainBfs(nodes, seen, frontier) ==
    IF frontier = {} THEN seen
    ELSE LET nxt == {c \in nodes \ seen : \E a \in frontier : GridEdge(a, c)}
         IN PlainBfs(nodes, seen \cup nxt, nxt)

\* nx.connected_components of the grid graph with every non-stone removed.
ConnectedComponents(nodes) == {PlainBfs(nodes, {s}, {s}) : s \in nodes}

get_stone_groups(b, color) ==
    LET stones == {c \in Cells(Shape(b)) : At(b, c[1], c[2]) = ColorCode(color)}
    IN ConnectedComponents(stones)

\* Python's None in a variable that otherwise holds a group: a connected
\* component is never empty, so the empty set is free to stand for it.
None == {}

\* The orders in which a collection of groups can be iterated.
Orders(S) ==
    {f \in [1..Cardinality(S) -> S] : \A i, j \in DOMAIN f : f[i] = f[j] => i = j}

\* -------------------------------------------------------- handle_click
\* The capture loop over list(get_stone_groups(board, other_color)): st is
\* the board, the mover's prisoner count and the flag after groups 1..i-1.
\* Variant: the stones of a captured group stay on the board.
ClearGroupKeeps(b, group) == b

\* for i, j in group: self.board[i, j] = 0
ClearGroup(b, group) ==
    [x \in 1..Len(b) |-> [y \in 1..Len(b) |->
        IF <<x - 1, y - 1>> \in group THEN 0 ELSE b[x][y]]]

\* Variant: the loop ends at the first captured group.
RECURSIVE CaptureLoopFirstOnly(_, _, _)
CaptureLoopFirstOnly(st, groups, i) ==
    IF i > Len(groups) THEN st
    ELSE IF has_no_liberties(st.board, groups[i])
         THEN [board |-> ClearGroup(st.board, groups[i]),
               count |-> st.count + Cardinality(groups[i]),
               happened |-> TRUE]
         ELSE CaptureLoopFirstOnly(st, groups, i + 1)

\* Variant: a captured group counts as one prisoner whatever its size.
RECURSIVE CaptureLoopCountsGroups(_, _, _)
CaptureLoopCountsGroups(st, groups, i) ==
    IF i > Len(groups) THEN st
    ELSE IF has_no_liberties(st.board, groups[i])
         THEN CaptureLoopCountsGroups(
                [board |-> ClearGroup(st.board, groups[i]),
                 count |-> st.count + 1,
                 happened |-> TRUE],
                groups, i + 1)
         ELSE CaptureLoopCountsGroups(st, groups, i + 1)

\* Variant: prisoners[self_color] = len(group) in place of +=, so that the
\* count left behind is the size of the group captured last.
RECURSIVE CaptureLoopAssignsCount(_, _, _)
CaptureLoopAssignsCount(st, groups, i) ==
    IF i > Len(groups) THEN st
    ELSE IF has_no_liberties(st.board, groups[i])
         THEN CaptureLoopAssignsCount(
                [board |-> ClearGroup(st.board, groups[i]),
                 count |-> Cardinality(groups[i]),
                 happened |-> TRUE],
                groups, i + 1)
         ELSE CaptureLoopAssignsCount(st, groups, i + 1)

RECURSIVE CaptureLoop(_, _, _)
CaptureLoop(st, groups, i) ==
    IF i > Len(groups) THEN st
    ELSE IF has_no_liberties(st.board, groups[i])
         THEN CaptureLoop(
                [board |-> ClearGroup(st.board, groups[i]),
                 count |-> st.count + Cardinality(groups[i]),
                 happened |-> TRUE],
                groups, i + 1)
         ELSE CaptureLoop(st, groups, i + 1)

\* Variant: the loop has no break, so group ends as the last one iterated.
SearchGroupNoBreak(groups, i, cell, last) ==
    IF Len(groups) = 0 THEN last ELSE groups[Len(groups)]

\* group = None; for group in groups: if (col, row) in group: break
\* The result is the group that holds the cell, else the last group
\* iterated, else None.
RECURSIVE SearchGroup(_, _, _, _)
SearchGroup(groups, i, cell, last) ==
    IF i > Len(groups) THEN last
    ELSE IF cell \in groups[i] THEN groups[i]
    ELSE SearchGroup(groups, i + 1, cell, groups[i])

Snapshot == [board |-> board, black_turn |-> black_turn, prisoners |-> prisoners]

\* Variant: the move is committed without passing the turn.
CommitKeepsTurn(b, self_color, count) ==
    /\ outcome' = "accepted"
    /\ board' = b
    /\ prisoners' = [prisoners EXCEPT ![self_color] = count]
    /\ moves' = [moves EXCEPT ![self_color] = @ + 1]
    /\ UNCHANGED black_turn

\* Variant: a move that recreates an earlier position is refused (a ko rule).
CommitUnlessRepeat(b, self_color, count) ==
    IF b \in positions
    THEN /\ outcome' = "invalid"
         /\ UNCHANGED <<board, prisoners, black_turn, moves>>
    ELSE /\ outcome' = "accepted"
         /\ board' = b
         /\ prisoners' = [prisoners EXCEPT ![self_color] = count]
         /\ black_turn' = ~black_turn
         /\ moves' = [moves EXCEPT ![self_color] = @ + 1]

\* self.black_turn = not self.black_turn, after the CLICK sound.
Commit(b, self_color, count) ==
    /\ outcome' = "accepted"
    /\ board' = b
    /\ prisoners' = [prisoners EXCEPT ![self_color] = count]
    /\ black_turn' = ~black_turn
    /\ moves' = [moves EXCEPT ![self_color] = @ + 1]

\* Variant: the suicide branch also passes the turn.
RevertPassesTurn(b, col, row, self_color, count) ==
    /\ outcome' = "suicide"
    /\ board' = [b EXCEPT ![col + 1][row + 1] = 0]
    /\ prisoners' = [prisoners EXCEPT ![self_color] = count]
    /\ black_turn' = ~black_turn
    /\ UNCHANGED moves

\* Variant: the suicide branch returns without taking the stone back.
RevertKeepsStone(b, col, row, self_color, count) ==
    /\ outcome' = "suicide"
    /\ board' = b
    /\ prisoners' = [prisoners EXCEPT ![self_color] = count]
    /\ UNCHANGED <<black_turn, moves>>

\* The suicide branch: ZOINK, the placed stone is taken back, return.
Revert(b, col, row, self_color, count) ==
    /\ outcome' = "suicide"
    /\ board' = [b EXCEPT ![col + 1][row + 1] = 0]
    /\ prisoners' = [prisoners EXCEPT ![self_color] = count]
    /\ UNCHANGED <<black_turn, moves>>

\* has_no_liberties(board, None) raises TypeError out of the handler.
Crash(b, self_color, count) ==
    /\ outcome' = "error"
    /\ board' = b
    /\ prisoners' = [prisoners EXCEPT ![self_color] = count]
    /\ UNCHANGED <<black_turn, moves>>

\* A click that is_valid_move refuses: ZOINK and return.
ClickInvalid(col, row) ==
    /\ ~is_valid_move(col, row, board)
    /\ outcome' = "invalid"
    /\ capture_happened' = FALSE
    /\ UNCHANGED <<board, black_turn, prisoners, moves>>

\* Variant: the suicide test runs on the placed stone before the captures.
ClickPlaceSuicideFirst(col, row) ==
    /\ is_valid_move(col, row, board)
    /\ LET placed == [board EXCEPT ![col + 1][row + 1] = IF black_turn THEN 1 ELSE 2]
           self_color == IF black_turn THEN "black" ELSE "white"
           other_color == IF black_turn THEN "white" ELSE "black"
       IN \E sg \in Orders(get_stone_groups(placed, self_color)) :
            LET group == SearchGroup(sg, 1, <<col, row>>, None)
            IN IF has_no_liberties(placed, group)
               THEN /\ capture_happened' = FALSE
                    /\ Revert(placed, col, row, self_color, prisoners[self_color])
               ELSE \E og \in Orders(get_stone_groups(placed, other_color)) :
                      LET cap == CaptureLoop([board |-> placed,
                                              count |-> prisoners[self_color],
                                              happened |-> FALSE], og, 1)
                      IN /\ capture_happened' = cap.happened
                         /\ Commit(cap.board, self_color, cap.count)

\* A click on an empty cell: placement, captures, then suicide or commit.
ClickPlace(col, row) ==
    /\ is_valid_move(col, row, board)
    /\ LET placed == [board EXCEPT ![col + 1][row + 1] = IF black_turn THEN 1 ELSE 2]
           self_color == IF black_turn THEN "black" ELSE "white"
           other_color == IF black_turn THEN "white" ELSE "black"
       IN \E og \in Orders(get_stone_groups(placed, other_color)) :
            LET cap == CaptureLoop([board |-> placed,
                                    count |-> prisoners[self_color],
                                    happened |-> FALSE], og, 1)
            IN /\ capture_happened' = cap.happened
               /\ IF ~cap.happened
                  THEN \E sg \in Orders(get_stone_groups(cap.board, self_color)) :
                         LET group == SearchGroup(sg, 1, <<col, row>>, None)
                         IN IF group = None
                            THEN Crash(cap.board, self_color, cap.count)
                            ELSE IF has_no_liberties(cap.board, group)
                            THEN Revert(cap.board, col, row, self_color, cap.count)
                            ELSE Commit(cap.board, self_color, cap.count)
                  ELSE Commit(cap.board, self_color, cap.count)

\* The columns and rows a click can map to: the board and one step outside.
Coords == -1..size

\* handle_click for a click drawn from clicks, in a game explored up to
\* budget accepted moves.
ClickIn(clicks, budget) ==
    /\ constructed
    /\ moves["black"] + moves["white"] < budget
    /\ \E c \in clicks :
         /\ click' = c
         /\ prev' = Snapshot
         /\ (ClickInvalid(c[1], c[2]) \/ ClickPlace(c[1], c[2]))
    /\ UNCHANGED <<constructed, size, query>>

HandleClick ==
    /\ ClickIn(Coords \X Coords, MoveBudget(size))
    /\ UNCHANGED positions

\* handle_click, with the board it leaves behind written down when the
\* move is accepted.
HandleClickLogged ==
    /\ ClickIn(Coords \X Coords, MoveBudget(size))
    /\ positions' = IF outcome' = "accepted" THEN positions \cup {board}
                                              ELSE positions

NoQuery == [fn |-> "none"]

\* np.zeros((size, size)) raises ValueError for a negative dimension and
\* returns an empty matrix for 0.
ZerosRaises(n) == n < 0

\* make_grid: np.linspace(start, stop, size) raises ValueError for a
\* negative number of samples and returns an empty array for 0; np.full((0))
\* is an empty array.
MakeGridRaises(n) == n < 0

\* xy_to_colrow: inc = (BOARD_WIDTH - 2 * BOARD_BORDER) / (size - 1) raises
\* ZeroDivisionError on the one-line board.
XyToColRowRaises(n) == n - 1 = 0

\* Game.__init__(size). When it raises there is no object: the other
\* variables then only hold the values of an untouched game.
InitGame(n) ==
    /\ constructed = (~ZerosRaises(n) /\ ~MakeGridRaises(n))
    /\ size = n
    /\ board = EmptyBoard(n)
    /\ black_turn = TRUE
    /\ prisoners = [black |-> 0, white |-> 0]
    /\ click = <<>>
    /\ outcome = "none"
    /\ capture_happened = FALSE
    /\ prev = [board |-> EmptyBoard(n), black_turn |-> TRUE,
               prisoners |-> [black |-> 0, white |-> 0]]
    /\ moves = [black |-> 0, white |-> 0]
    /\ positions = {}
    /\ query = NoQuery

Init == \E n \in Sizes : InitGame(n)

Next == HandleClick

Spec == Init /\ [][Next]_vars

\* ------------------------------------- the game with its past positions
\* The smallest board explored, the one that is played deepest.
SmallestSize == CHOOSE n \in Sizes : \A m \in Sizes : n <= m

InitKo == InitGame(SmallestSize)

NextKo == HandleClickLogged

SpecKo == InitKo /\ [][NextKo]_vars

\* ------------------------------------------- games of degenerate sizes
\* The sizes handed to Game(size) in SpecCtor: negative, zero, one line,
\* and the smallest playable board.
CtorSizes == -1..SmallestSize

InitCtor == \E n \in CtorSizes : InitGame(n)

\* handle_click on a game that exists and whose clicks map to a cell.
HandleClickBuilt ==
    /\ ~XyToColRowRaises(size)
    /\ ClickIn(Coords \X Coords, MoveBudget(size))
    /\ UNCHANGED positions

\* handle_click on the one-line board: xy_to_colrow raises before anything
\* is read or written.
ClickDivideByZero ==
    /\ constructed
    /\ XyToColRowRaises(size)
    /\ outcome' = "error"
    /\ UNCHANGED <<constructed, size, board, black_turn, prisoners, click,
                   capture_happened, prev, moves, positions, query>>

NextCtor == HandleClickBuilt \/ ClickDivideByZero

SpecCtor == InitCtor /\ [][NextCtor]_vars

\* --------------------------------------- play in a corner of the 5x5 board
\* The clicks of SpecCorner: the three lines nearest the corner (0, 0).
CornerRegion == {c \in Cells(size) : c[1] <= 2 /\ c[2] <= 2}

InitCorner == InitGame(5)

HandleClickCorner ==
    /\ ClickIn(CornerRegion, CornerMoves)
    /\ UNCHANGED positions

NextCorner == HandleClickCorner

SpecCorner == InitCorner /\ [][NextCorner]_vars

\* ------------------------------- play towards the cross on the 3x3 board
\* The four edge midpoints of the 3x3 board.
CrossCells == {<<0, 1>>, <<1, 0>>, <<1, 2>>, <<2, 1>>}

InitCross == InitGame(3)

\* Black clicks on the cross only, White on any cell of the board.
HandleClickCross ==
    /\ ClickIn(IF black_turn THEN CrossCells ELSE Cells(size), CrossMoves)
    /\ UNCHANGED positions

NextCross == HandleClickCross

SpecCross == InitCross /\ [][NextCross]_vars

\* ------------------------------------------- the query functions alone
\* The boards of size n that hold at most k stones, of any colours.
BoardsUpTo(n, k) ==
    LET placements == UNION {[S -> 1..2] :
                               S \in {T \in SUBSET Cells(n) : Cardinality(T) <= k}}
    IN {[x \in 1..n |-> [y \in 1..n |->
            IF <<x - 1, y - 1>> \in DOMAIN f THEN f[<<x - 1, y - 1>>] ELSE 0]] :
        f \in placements}

\* The cell sets handed to has_no_liberties: every set of at most MaxGroup
\* cells and every stone group of the board.
GroupInputs(b) ==
    {g \in SUBSET Cells(Shape(b)) : g # {} /\ Cardinality(g) <= MaxGroup}
        \cup get_stone_groups(b, "black") \cup get_stone_groups(b, "white")

InitQuery ==
    /\ constructed = TRUE
    /\ size \in Sizes
    /\ board \in BoardsUpTo(size, StoneBudget(size))
    /\ black_turn = TRUE
    /\ prisoners = [black |-> 0, white |-> 0]
    /\ click = <<>>
    /\ outcome = "none"
    /\ capture_happened = FALSE
    /\ prev = [board |-> EmptyBoard(size), black_turn |-> TRUE,
               prisoners |-> [black |-> 0, white |-> 0]]
    /\ moves = [black |-> 0, white |-> 0]
    /\ positions = {}
    /\ query = NoQuery

gameVars == <<constructed, size, board, black_turn, prisoners, click, outcome,
              capture_happened, prev, moves, positions>>

QueryValidMove ==
    /\ query = NoQuery
    /\ \E col \in Coords, row \in Coords :
         query' = [fn |-> "is_valid_move", col |-> col, row |-> row,
                   result |-> is_valid_move(col, row, board)]
    /\ UNCHANGED gameVars

QueryStoneGroups ==
    /\ query = NoQuery
    /\ \E color \in {"black", "white"} :
         query' = [fn |-> "get_stone_groups", color |-> color,
                   result |-> get_stone_groups(board, color)]
    /\ UNCHANGED gameVars

QueryLiberties ==
    /\ query = NoQuery
    /\ \E group \in GroupInputs(board) :
         query' = [fn |-> "has_no_liberties", group |-> group,
                   result |-> has_no_liberties(board, group)]
    /\ UNCHANGED gameVars

NextQuery == QueryValidMove \/ QueryStoneGroups \/ QueryLiberties

SpecQuery == InitQuery /\ [][NextQuery]_vars

\* =====================================================================
\* The vocabulary of the rules, stated on the board alone.

\* Two cells are orthogonally adjacent.
Adjacent(a, c) ==
    (a[1] - c[1]) * (a[1] - c[1]) + (a[2] - c[2]) * (a[2] - c[2]) = 1

\* The content of cell c of board b.
Stone(b, c) == b[c[1] + 1][c[2] + 1]

\* The least set of cells holding S that is closed under stepping to an
\* adjacent cell of colour k.
RECURSIVE Grow(_, _, _)
Grow(b, k, S) ==
    LET more == {d \in Cells(Len(b)) \ S :
                    Stone(b, d) = k /\ \E s \in S : Adjacent(s, d)}
    IN IF more = {} THEN S ELSE Grow(b, k, S \cup more)

\* The maximal 4-connected same-coloured group of the stone at c.
Chain(b, c) == Grow(b, Stone(b, c), {c})

\* Some cell of G has an adjacent empty cell on the board.
HasLiberty(b, G) ==
    \E s \in G : \E d \in Cells(Len(b)) : Adjacent(s, d) /\ Stone(b, d) = 0

\* The last click fell on an empty cell of the board it found.
ClickOnEmpty == click \in Cells(size) /\ Stone(prev.board, click) = 0

\* The colour codes of the side that made the last click and of its
\* opponent, and their colour names.
MoverCode == IF prev.black_turn THEN 1 ELSE 2
OtherCode == IF prev.black_turn THEN 2 ELSE 1
MoverName == IF prev.black_turn THEN "black" ELSE "white"
OtherName == IF prev.black_turn THEN "white" ELSE "black"

\* The board the last click found, with the mover's stone added at the click.
Tentative ==
    [x \in 1..size |-> [y \in 1..size |->
        IF <<x - 1, y - 1>> = click THEN MoverCode ELSE prev.board[x][y]]]

\* The opposing stones standing without a liberty on the tentative board.
DeadOpposing ==
    {d \in Cells(size) : /\ Stone(Tentative, d) = OtherCode
                         /\ ~HasLiberty(Tentative, Chain(Tentative, d))}

Rejected == outcome \in {"invalid", "suicide"}

\* ---------------------------------------------------------------------
\* C1: a rejected move attempt (out of bounds, occupied or suicide) leaves
\* every board cell, the side to move and both prisoner counts as they
\* were before the attempt.
C1_RejectedLeavesStateUnchanged ==
    Rejected => /\ board = prev.board
                /\ black_turn = prev.black_turn
                /\ prisoners = prev.prisoners

\* A suicide was rejected on a board that holds stones of both colours.
C1_Witness ==
    /\ outcome = "suicide"
    /\ \E c, d \in Cells(size) : Stone(board, c) = 1 /\ Stone(board, d) = 2

\* ---------------------------------------------------------------------
\* C2: in every reachable state every group of stones of either colour has
\* at least one adjacent empty cell.
C2_EveryGroupHasLiberty ==
    \A c \in Cells(size) :
        Stone(board, c) # 0 => HasLiberty(board, Chain(board, c))

\* A capture has just been resolved and stones of both colours remain.
C2_Witness ==
    /\ outcome = "accepted"
    /\ capture_happened
    /\ \E c, d \in Cells(size) : Stone(board, c) = 1 /\ Stone(board, d) = 2

\* ---------------------------------------------------------------------
\* C3: the side to move flips exactly when a move is accepted, a rejected
\* attempt leaves it unchanged, and the stone of an accepted move stands on
\* the clicked cell in the colour of the side that was to move.
C3_TurnAlternation ==
    /\ (outcome = "accepted") <=> (black_turn # prev.black_turn)
    /\ Rejected => black_turn = prev.black_turn
    /\ outcome = "accepted" =>
          /\ ClickOnEmpty
          /\ Stone(board, click) = MoverCode

\* White has answered Black: two accepted moves, the last one White's.
C3_Witness ==
    /\ outcome = "accepted"
    /\ black_turn
    /\ Stone(board, click) = 2
    /\ moves["black"] >= 1

\* ---------------------------------------------------------------------
\* C4: a placement on an empty cell whose own group has no liberty at the
\* moment of placement, but which leaves an opposing group without liberty,
\* is accepted; the opposing stones are removed and the mover's prisoner
\* count grows by the number of stones removed.
SuicidalButCapturing ==
    /\ ClickOnEmpty
    /\ ~HasLiberty(Tentative, Chain(Tentative, click))
    /\ DeadOpposing # {}

C4_CaptureBeforeSuicide ==
    SuicidalButCapturing =>
        /\ outcome = "accepted"
        /\ \A d \in DeadOpposing : Stone(board, d) = 0
        /\ prisoners[MoverName] = prev.prisoners[MoverName] + Cardinality(DeadOpposing)

C4_Witness == SuicidalButCapturing /\ outcome = "accepted"

\* ---------------------------------------------------------------------
\* C5: after a valid placement every opposing group without liberty is
\* emptied and counted into the mover's prisoners, the opposing groups with
\* a liberty stay, and the opponent's prisoner count is unchanged.
C5_CaptureResolution ==
    (ClickOnEmpty /\ outcome = "accepted") =>
        /\ \A d \in Cells(size) :
              Stone(Tentative, d) = OtherCode =>
                  Stone(board, d) = (IF d \in DeadOpposing THEN 0 ELSE OtherCode)
        /\ prisoners[MoverName] = prev.prisoners[MoverName] + Cardinality(DeadOpposing)
        /\ prisoners[OtherName] = prev.prisoners[OtherName]

\* An opposing group was captured while another opposing stone, whose
\* group kept a liberty, stayed on the board.
C5_Witness ==
    /\ ClickOnEmpty
    /\ outcome = "accepted"
    /\ DeadOpposing # {}
    /\ \E d \in Cells(size) : Stone(board, d) = OtherCode

\* ---------------------------------------------------------------------
\* C6: an attempt is accepted exactly when the cell is on the board, empty,
\* and the placement captures or the placed stone's group has a liberty; on
\* an empty cell with neither it is rejected as suicide.
Playable ==
    /\ ClickOnEmpty
    /\ \/ DeadOpposing # {}
       \/ HasLiberty(Tentative, Chain(Tentative, click))

C6_AcceptedIffPlayable ==
    outcome # "none" =>
        /\ (outcome = "accepted") <=> Playable
        /\ (outcome = "suicide") <=> (ClickOnEmpty /\ ~Playable)
        /\ (outcome = "invalid") <=> ~ClickOnEmpty

\* A suicide was rejected next to an opposing group that kept a liberty.
C6_Witness ==
    /\ outcome = "suicide"
    /\ \E d \in Cells(size) : Adjacent(click, d) /\ Stone(board, d) = OtherCode

\* ---------------------------------------------------------------------
\* C7: when a placement captures, the group of the placed stone has a
\* liberty once the captured stones are removed.
C7_CapturingStoneHasLiberty ==
    (outcome = "accepted" /\ capture_happened) =>
        HasLiberty(board, Chain(board, click))

\* A capturing placement whose only liberties are the cells it emptied.
C7_Witness ==
    /\ outcome = "accepted"
    /\ capture_happened
    /\ SuicidalButCapturing

\* ---------------------------------------------------------------------
\* C8: get_stone_groups returns a partition of exactly the cells of the
\* colour into groups that are each 4-connected through cells of the group
\* and of which no two hold adjacent cells.
ColourCells(b, color) ==
    {c \in Cells(Len(b)) : Stone(b, c) = (IF color = "black" THEN 1 ELSE 2)}

\* The cells of g reachable from S by steps between adjacent cells of g.
RECURSIVE Within(_, _)
Within(g, S) ==
    LET more == {d \in g \ S : \E s \in S : Adjacent(s, d)}
    IN IF more = {} THEN S ELSE Within(g, S \cup more)

IsPartitionIntoGroups(b, color, R) ==
    /\ UNION R = ColourCells(b, color)
    /\ \A g \in R : g # {}
    /\ \A g, h \in R : g # h => g \cap h = {}
    /\ \A g \in R : \A c \in g : Within(g, {c}) = g
    /\ \A g, h \in R : g # h => \A c \in g, d \in h : ~Adjacent(c, d)

C8_GroupsArePartition ==
    query.fn = "get_stone_groups" =>
        IsPartitionIntoGroups(board, query.color, query.result)

\* A board whose stones of the colour fall into at least two groups, one of
\* them bent (three or more stones not in one line).
C8_Witness ==
    /\ query.fn = "get_stone_groups"
    /\ Cardinality(query.result) >= 2
    /\ \E g \in query.result :
          /\ Cardinality(g) >= 3
          /\ \E c, d \in g : c[1] # d[1] /\ c[2] # d[2]

C10_ValidIffOnBoardAndEmpty ==
    query.fn = "is_valid_move" =>
        (query.result <=>
            /\ query.col \in 0..(size - 1)
            /\ query.row \in 0..(size - 1)
            /\ Stone(board, <<query.col, query.row>>) = 0)

\* True on an empty cell all of whose neighbours hold stones of one colour.
C10_Witness ==
    /\ query.fn = "is_valid_move"
    /\ query.result
    /\ \E k \in 1..2 : \A d \in Cells(size) :
          Adjacent(<<query.col, query.row>>, d) => Stone(board, d) = k

\* ---------------------------------------------------------------------
\* C11: there is no ko rule: a playable move that recreates a position the
\* board held earlier in the game is accepted like any other, and such a
\* repetition does occur.
\* The board a playable click must leave: the tentative board without the
\* opposing stones that stand without liberty.
ExpectedBoard ==
    [x \in 1..size |-> [y \in 1..size |->
        IF <<x - 1, y - 1>> \in DeadOpposing THEN 0 ELSE Tentative[x][y]]]

C11_RepetitionIsAccepted ==
    (Playable /\ ExpectedBoard \in positions) =>
        (outcome = "accepted" /\ board = ExpectedBoard)

\* An accepted move has brought back a position held earlier in the game.
C11_Witness ==
    /\ outcome = "accepted"
    /\ board \in positions

\* ---------------------------------------------------------------------
\* C12: on the 5x5 board holding a White stone at (0,0) and a Black stone
\* at (1,0), Black's move at (0,1) is accepted and captures: (0,0) becomes
\* empty, Black holds one prisoner and White is to move.
CornerBoard ==
    [x \in 1..5 |-> [y \in 1..5 |->
        IF <<x, y>> = <<1, 1>> THEN 2 ELSE IF <<x, y>> = <<2, 1>> THEN 1 ELSE 0]]

CornerAttempt ==
    /\ size = 5
    /\ prev.board = CornerBoard
    /\ prev.black_turn
    /\ click = <<0, 1>>

C12_CornerCapture ==
    CornerAttempt =>
        /\ outcome = "accepted"
        /\ capture_happened
        /\ Stone(board, <<0, 0>>) = 0
        /\ Stone(board, <<0, 1>>) = 1
        /\ prisoners["black"] = 1
        /\ ~black_turn

\* Black has just played (0,1) against the lone White corner stone.
C12_Witness == CornerAttempt /\ outcome = "accepted"

\* ---------------------------------------------------------------------
\* C13: on the 3x3 board holding Black stones at exactly (0,1), (1,0),
\* (1,2) and (2,1), with White to move, White's attempt at (1,1) is
\* rejected as suicide and leaves the board, the prisoner counts and the
\* side to move as they were.
CrossBoard ==
    [x \in 1..3 |-> [y \in 1..3 |->
        IF <<x - 1, y - 1>> \in CrossCells THEN 1 ELSE 0]]

CrossAttempt ==
    /\ size = 3
    /\ prev.board = CrossBoard
    /\ ~prev.black_turn
    /\ click = <<1, 1>>

\* The claim as stated: Black's prisoner count is 0 before and after.
C13_AsStated ==
    CrossAttempt =>
        /\ outcome = "suicide"
        /\ board = CrossBoard
        /\ prisoners["black"] = 0
        /\ ~black_turn

\* The claim as amended: Black's prisoner count is unchanged, and it is at
\* least 3, the White stones that had to be played and captured on the way.
C13_CrossSuicideRejected ==
    CrossAttempt =>
        /\ outcome = "suicide"
        /\ board = CrossBoard
        /\ Stone(board, <<1, 1>>) = 0
        /\ prisoners = prev.prisoners
        /\ prisoners["black"] >= 3
        /\ ~black_turn

\* White has just tried the centre of the cross.
C13_Witness == CrossAttempt /\ outcome = "suicide"

\* ---------------------------------------------------------------------
\* C14: a newly created game of size N has N x N cells, all empty, Black to
\* move and both prisoner counts zero.
NewGame == click = <<>> /\ outcome = "none"

C14_NewGameIsEmpty ==
    NewGame =>
        /\ Len(board) = size
        /\ \A x \in 1..size : Len(board[x]) = size
        /\ \A c \in Cells(size) : Stone(board, c) = 0
        /\ black_turn
        /\ prisoners["black"] = 0
        /\ prisoners["white"] = 0

\* A game of the largest size explored, before its first click.
C14_Witness == NewGame /\ size = MaxSize /\ Len(board) = MaxSize

\* ---------------------------------------------------------------------
\* C15: creating a game with a size of 0 or less fails at construction, so
\* that there is no game on which a click is ever handled.
C15_NonPositiveSizeFails ==
    size <= 0 => (~constructed /\ outcome = "none")

\* ---------------------------------------------------------------------
\* C16: whatever the order in which the opposing groups are iterated, the
\* capture loop, which tests each group on the board that earlier captures
\* have already changed, removes the same cells and adds the same number of
\* prisoners as testing every group on the one board taken right after the
\* placement.
SnapshotCapture(b, groups, count) ==
    LET dead == UNION {g \in groups : has_no_liberties(b, g)}
    IN [board |-> [x \in 1..Len(b) |-> [y \in 1..Len(b) |->
                      IF <<x - 1, y - 1>> \in dead THEN 0 ELSE b[x][y]]],
        count |-> count + Cardinality(dead),
        happened |-> dead # {}]

C16_CaptureOrderIrrelevant ==
    ClickOnEmpty =>
        LET groups == get_stone_groups(Tentative, OtherName)
            once == SnapshotCapture(Tentative, groups, prev.prisoners[MoverName])
        IN /\ \A og \in Orders(groups) :
                 CaptureLoop([board |-> Tentative,
                              count |-> prev.prisoners[MoverName],
                              happened |-> FALSE], og, 1) = once
           /\ outcome = "accepted" =>
                 /\ board = once.board
                 /\ prisoners[MoverName] = once.count
                 /\ capture_happened = once.happened

\* One placement has captured two separate opposing groups.
C16_Witness ==
    /\ ClickOnEmpty
    /\ outcome = "accepted"
    /\ \E d, e \in DeadOpposing : e \notin Chain(Tentative, d)

\* ---------------------------------------------------------------------
\* C17: whenever the suicide test runs (empty cell, nothing captured), the
\* placed cell lies in exactly one of the mover's freshly computed groups,
\* and the search hands that group, in whatever order the groups come, to
\* the liberty test: never a group left over from the loop, never None.
SuicideTestRan ==
    /\ ClickOnEmpty
    /\ ~capture_happened
    /\ outcome \in {"accepted", "suicide", "error"}

C17_SearchFindsPlacedGroup ==
    SuicideTestRan =>
        LET groups == get_stone_groups(Tentative, MoverName)
        IN /\ Cardinality({g \in groups : click \in g}) = 1
           /\ \A sg \in Orders(groups) :
                 SearchGroup(sg, 1, click, None) = Chain(Tentative, click)
           /\ outcome # "error"

\* A suicide was judged while the mover had another group on the board.
C17_Witness ==
    /\ SuicideTestRan
    /\ outcome = "suicide"
    /\ Cardinality(get_stone_groups(Tentative, MoverName)) >= 2

\* ---------------------------------------------------------------------
\* C18: for each colour, its stones on the board plus the prisoners held by
\* its opponent equal the accepted moves it has made; prisoner counts are
\* never negative and never decrease.
StonesOn(b, k) == Cardinality({c \in Cells(Len(b)) : Stone(b, c) = k})

C18_StoneConservation ==
    /\ StonesOn(board, 1) + prisoners["white"] = moves["black"]
    /\ StonesOn(board, 2) + prisoners["black"] = moves["white"]
    /\ \A k \in {"black", "white"} :
          /\ prisoners[k] >= 0
          /\ prisoners[k] >= prev.prisoners[k]

\* Both sides hold prisoners: each has captured at least once.
C18_Witness ==
    /\ prisoners["black"] >= 1
    /\ prisoners["white"] >= 1
    /\ outcome = "accepted"

\* ---------------------------------------------------------------------
\* C19: an accepted move puts the mover's colour on the clicked cell; every
\* other cell that changes held the opponent's colour and is now empty; no
\* stone of the mover is removed and no stone appears anywhere else.
C19_AcceptedMoveFrame ==
    outcome = "accepted" =>
        /\ Stone(prev.board, click) = 0
        /\ Stone(board, click) = MoverCode
        /\ \A d \in Cells(size) \ {click} :
              \/ Stone(board, d) = Stone(prev.board, d)
              \/ (Stone(prev.board, d) = OtherCode /\ Stone(board, d) = 0)

\* An accepted move that emptied a cell next to stones of the mover that
\* stayed.
C19_Witness ==
    /\ outcome = "accepted"
    /\ \E d \in Cells(size) : Stone(prev.board, d) = OtherCode /\ Stone(board, d) = 0
    /\ \E d \in Cells(size) \ {click} : Stone(board, d) = MoverCode

\* ---------------------------------------------------------------------
\* C20: accepted Black moves minus accepted White moves is 0 when Black is
\* to move and 1 when White is to move, whatever was rejected in between.
C20_MoveCountBalance ==
    moves["black"] - moves["white"] = (IF black_turn THEN 0 ELSE 1)

\* A rejected attempt in the middle of a game, with White to move.
C20_Witness ==
    /\ Rejected
    /\ ~black_turn
    /\ moves["black"] >= 2

====
